---- MODULE Spec2Model ----
(***************************************************************************)
(* Model of src/vdom/vtext.rs: the text/comment leaf of the virtual DOM    *)
(* (VText) and its DOMPatch / DOMReorder / DOMRemove / DOMInfo             *)
(* implementations, run against a small live document tree.               *)
(*                                                                         *)
(* Live nodes are numbered 1..Len(nodes).  Nodes 1 and 2 are container     *)
(* elements that exist from the start (the `div` of the tests and an       *)
(* element child of it); every later one is a text or comment node created *)
(* by patch_new.                                                           *)
(* 0 stands for None (Option<Node>, Option<&mut Self>).                    *)
(***************************************************************************)
EXTENDS Integers, Sequences, FiniteSets, TLC

\* ---- bounds ----------------------------------------------------------
MaxLeaves == 2     \* leaves constructed
MaxCalls == 2      \* patch/reorder/remove/node calls made

Contents == {"", "x"}

None == 0

VARIABLES
    leaves,     \* Seq of VText: [content, is_comment, node]
    nodes,      \* Seq of live nodes: [kind, text]
    children,   \* [element id -> Seq of child node ids]
    call,       \* the last protocol call: [op, self, old, parent, next]
    ret,        \* its outcome: "Ok", "Err", "panic" ("init" before any call)
    calls,      \* the platform calls the last operation made: [fn, ok]
    patchedOk,  \* the leaves on which a patch call has returned Ok
    ncalls      \* the number of protocol calls made so far

vars == <<leaves, nodes, children, call, ret, calls, patchedOk, ncalls>>

\* ---- the live document (web_api) -------------------------------------
\* the container elements of the document
Elements == {1, 2}

IsContainer(ns, n) == ns[n].kind = "element"

InSeq(s, x) == \E i \in 1..Len(s) : s[i] = x

IndexOf(s, x) == CHOOSE i \in 1..Len(s) : s[i] = x

\* the element whose child n is, None when n is detached
ParentOf(ch, n) ==
    IF \E e \in DOMAIN ch : InSeq(ch[e], n)
    THEN CHOOSE e \in DOMAIN ch : InSeq(ch[e], n)
    ELSE None

Without(s, n) == SelectSeq(s, LAMBDA x : x # n)

Detach(ch, n) == [e \in DOMAIN ch |-> Without(ch[e], n)]

InsertAt(s, i, n) == SubSeq(s, 1, i - 1) \o <<n>> \o SubSeq(s, i, Len(s))

\* document.create_text_node / document.create_comment
create_text_node(ns, content) == Append(ns, [kind |-> "text", text |-> content])

create_comment(ns, content) == Append(ns, [kind |-> "comment", text |-> content])

\* Node::append_child: fails when parent cannot have children; otherwise the
\* node leaves its former parent and becomes the last child of parent.
append_child(ns, ch, parent, node) ==
    IF ~IsContainer(ns, parent) \/ node = parent
    THEN [ok |-> FALSE, children |-> ch]
    ELSE [ok |-> TRUE,
          children |-> [Detach(ch, node) EXCEPT ![parent] = Append(@, node)]]

\* Node::insert_before: fails when parent cannot have children or when the
\* reference is not a child of parent; inserting a node before itself
\* leaves it where it is.
insert_before(ns, ch, parent, node, next) ==
    IF ~IsContainer(ns, parent) \/ node = parent \/ ParentOf(ch, next) # parent
    THEN [ok |-> FALSE, children |-> ch]
    ELSE IF next = node
    THEN [ok |-> TRUE, children |-> ch]
    ELSE LET d == Detach(ch, node)
         IN [ok |-> TRUE,
             children |-> [d EXCEPT ![parent] =
                               InsertAt(@, IndexOf(@, next), node)]]

\* Node::remove_child: fails when node is not a child of parent.
remove_child(ns, ch, parent, node) ==
    IF ParentOf(ch, node) # parent
    THEN [ok |-> FALSE, children |-> ch]
    ELSE [ok |-> TRUE, children |-> Detach(ch, node)]

\* Node::set_text_content on a text or comment node replaces its data.
set_text_content(ns, node, content) == [ns EXCEPT ![node].text = content]

\* ---- VText -------------------------------------------------------------
\* VText::text
text(content) == [content |-> content, is_comment |-> FALSE, node |-> None]

\* VText::comment
comment(content) == [content |-> content, is_comment |-> TRUE, node |-> None]

\* The outcome of an operation: the return value and the state it leaves.
Outcome(r, ls, ns, ch, cs) ==
    [ret |-> r, leaves |-> ls, nodes |-> ns, children |-> ch, calls |-> cs]

\* one platform call and whether it succeeded
Did(fn, ok) == [fn |-> fn, ok |-> ok]

\* patch_new that appends the node whatever next is
patch_new_always_appends(ls, ns, ch, cs, self, parent, next) ==
    LET created == IF ls[self].is_comment
                   THEN create_comment(ns, ls[self].content)
                   ELSE create_text_node(ns, ls[self].content)
        new == Len(created)
        mk == IF ls[self].is_comment THEN "create_comment" ELSE "create_text_node"
        ins == append_child(created, ch, parent, new)
        made == cs \o <<Did(mk, TRUE), Did("append_child", ins.ok)>>
    IN IF ins.ok
       THEN Outcome("Ok", [ls EXCEPT ![self].node = new], created,
                    ins.children, made)
       ELSE Outcome("Err", ls, ns, ch, made)

\* patch_new that always creates a text node
patch_new_always_text(ls, ns, ch, cs, self, parent, next) ==
    LET created == create_text_node(ns, ls[self].content)
        new == Len(created)
        ins == IF next # None
               THEN insert_before(created, ch, parent, new, next)
               ELSE append_child(created, ch, parent, new)
        fn == IF next # None THEN "insert_before" ELSE "append_child"
        made == cs \o <<Did("create_text_node", TRUE), Did(fn, ins.ok)>>
    IN IF ins.ok
       THEN Outcome("Ok", [ls EXCEPT ![self].node = new], created,
                    ins.children, made)
       ELSE Outcome("Err", ls, ns, ch, made)

\* patch_new that records the node before inserting it
patch_new_attach_first(ls, ns, ch, cs, self, parent, next) ==
    LET created == IF ls[self].is_comment
                   THEN create_comment(ns, ls[self].content)
                   ELSE create_text_node(ns, ls[self].content)
        new == Len(created)
        mk == IF ls[self].is_comment THEN "create_comment" ELSE "create_text_node"
        ins == IF next # None
               THEN insert_before(created, ch, parent, new, next)
               ELSE append_child(created, ch, parent, new)
        fn == IF next # None THEN "insert_before" ELSE "append_child"
    IN Outcome(IF ins.ok THEN "Ok" ELSE "Err",
               [ls EXCEPT ![self].node = new], created, ins.children,
               cs \o <<Did(mk, TRUE), Did(fn, ins.ok)>>)

\* VText::patch_new, started in leaves ls, document (ns, ch), after the
\* platform calls cs.  A node whose insertion failed is dropped.
patch_new(ls, ns, ch, cs, self, parent, next) ==
    LET created == IF ls[self].is_comment
                   THEN create_comment(ns, ls[self].content)
                   ELSE create_text_node(ns, ls[self].content)
        new == Len(created)
        mk == IF ls[self].is_comment THEN "create_comment" ELSE "create_text_node"
        ins == IF next # None
               THEN insert_before(created, ch, parent, new, next)
               ELSE append_child(created, ch, parent, new)
        fn == IF next # None THEN "insert_before" ELSE "append_child"
        made == cs \o <<Did(mk, TRUE), Did(fn, ins.ok)>>
    IN IF ins.ok
       THEN Outcome("Ok", [ls EXCEPT ![self].node = new], created,
                    ins.children, made)
       ELSE Outcome("Err", ls, ns, ch, made)

\* remove that empties the parent
remove_clears_parent(ls, ns, ch, cs, self, parent) ==
    IF ls[self].node = None
    THEN Outcome("panic", ls, ns, ch, cs)
    ELSE LET rm == remove_child(ns, ch, parent, ls[self].node)
         IN Outcome(IF rm.ok THEN "Ok" ELSE "Err", ls, ns,
                    IF rm.ok THEN [ch EXCEPT ![parent] = <<>>] ELSE ch,
                    cs \o <<Did("remove_child", rm.ok)>>)

\* remove that does nothing on an unattached leaf
remove_unattached_noop(ls, ns, ch, cs, self, parent) ==
    IF ls[self].node = None
    THEN Outcome("Ok", ls, ns, ch, cs)
    ELSE LET rm == remove_child(ns, ch, parent, ls[self].node)
         IN Outcome(IF rm.ok THEN "Ok" ELSE "Err", ls, ns, rm.children,
                    cs \o <<Did("remove_child", rm.ok)>>)

\* remove that clears the leaf's node once it is removed
remove_clears_node(ls, ns, ch, cs, self, parent) ==
    IF ls[self].node = None
    THEN Outcome("panic", ls, ns, ch, cs)
    ELSE LET rm == remove_child(ns, ch, parent, ls[self].node)
         IN Outcome(IF rm.ok THEN "Ok" ELSE "Err",
                    IF rm.ok THEN [ls EXCEPT ![self].node = None] ELSE ls,
                    ns, rm.children, cs \o <<Did("remove_child", rm.ok)>>)

\* DOMRemove::remove
remove(ls, ns, ch, cs, self, parent) ==
    IF ls[self].node = None
    THEN Outcome("panic", ls, ns, ch, cs)
    ELSE LET rm == remove_child(ns, ch, parent, ls[self].node)
         IN Outcome(IF rm.ok THEN "Ok" ELSE "Err", ls, ns, rm.children,
                    cs \o <<Did("remove_child", rm.ok)>>)

\* update in place that sets the text whether or not it differs
update_in_place_always_sets(ls, ns, ch, self, old) ==
    IF ls[old].node = None
    THEN Outcome("panic", ls, ns, ch, <<>>)
    ELSE LET old_node == ls[old].node
         IN Outcome("Ok",
                    [ls EXCEPT ![self].node = old_node],
                    set_text_content(ns, old_node, ls[self].content),
                    ch,
                    <<Did("set_text_content", TRUE)>>)

\* update in place that also brings the old leaf's content up to date
update_in_place_syncs_old(ls, ns, ch, self, old) ==
    IF ls[old].node = None
    THEN Outcome("panic", ls, ns, ch, <<>>)
    ELSE LET old_node == ls[old].node
             differs == ls[self].content # ls[old].content
         IN Outcome("Ok",
                    [ls EXCEPT ![self].node = old_node,
                               ![old].content = ls[self].content],
                    IF differs
                    THEN set_text_content(ns, old_node, ls[self].content)
                    ELSE ns,
                    ch,
                    IF differs THEN <<Did("set_text_content", TRUE)>> ELSE <<>>)

\* update in place that never rewrites the text
update_in_place_keeps_text(ls, ns, ch, self, old) ==
    IF ls[old].node = None
    THEN Outcome("panic", ls, ns, ch, <<>>)
    ELSE Outcome("Ok", [ls EXCEPT ![self].node = ls[old].node], ns, ch, <<>>)

\* update in place that forgets to record the node in the new leaf
update_in_place_forgets_node(ls, ns, ch, self, old) ==
    IF ls[old].node = None
    THEN Outcome("panic", ls, ns, ch, <<>>)
    ELSE LET differs == ls[self].content # ls[old].content
         IN Outcome("Ok", ls,
                    IF differs
                    THEN set_text_content(ns, ls[old].node, ls[self].content)
                    ELSE ns,
                    ch,
                    IF differs THEN <<Did("set_text_content", TRUE)>> ELSE <<>>)

\* update in place that moves the node out of the old leaf
update_in_place_takes(ls, ns, ch, self, old) ==
    IF ls[old].node = None
    THEN Outcome("panic", ls, ns, ch, <<>>)
    ELSE LET differs == ls[self].content # ls[old].content
         IN Outcome("Ok",
                    [ls EXCEPT ![self].node = ls[old].node, ![old].node = None],
                    IF differs
                    THEN set_text_content(ns, ls[old].node, ls[self].content)
                    ELSE ns,
                    ch,
                    IF differs THEN <<Did("set_text_content", TRUE)>> ELSE <<>>)

\* DOMPatch::patch, old of the same kind: reuse old's live node
update_in_place(ls, ns, ch, self, old) ==
    IF ls[old].node = None
    THEN Outcome("panic", ls, ns, ch, <<>>)
    ELSE LET old_node == ls[old].node
             differs == ls[self].content # ls[old].content
         IN Outcome("Ok",
                    [ls EXCEPT ![self].node = old_node],
                    IF differs
                    THEN set_text_content(ns, old_node, ls[self].content)
                    ELSE ns,
                    ch,
                    IF differs THEN <<Did("set_text_content", TRUE)>> ELSE <<>>)

\* kind change that inserts the new node before it removes the old one
kind_change_insert_first(ls, ns, ch, self, old, parent, next) ==
    LET pn == patch_new(ls, ns, ch, <<>>, self, parent, next)
    IN IF pn.ret # "Ok"
       THEN pn
       ELSE remove(pn.leaves, pn.nodes, pn.children, pn.calls, old, parent)

\* kind change that puts the old node back when the insertion fails
kind_change_rolls_back(ls, ns, ch, self, old, parent, next) ==
    LET rm == remove(ls, ns, ch, <<>>, old, parent)
    IN IF rm.ret # "Ok"
       THEN rm
       ELSE LET pn == patch_new(rm.leaves, rm.nodes, rm.children, rm.calls,
                                self, parent, next)
            IN IF pn.ret = "Ok"
               THEN pn
               ELSE Outcome("Err", ls, ns, ch, pn.calls)

\* kind change that leaves the old node in the parent
kind_change_keeps_old(ls, ns, ch, self, old, parent, next) ==
    patch_new(ls, ns, ch, <<>>, self, parent, next)

\* DOMPatch::patch, old of the other kind: remove old's node, then patch_new
kind_change(ls, ns, ch, self, old, parent, next) ==
    LET rm == remove(ls, ns, ch, <<>>, old, parent)
    IN IF rm.ret # "Ok"
       THEN rm
       ELSE patch_new(rm.leaves, rm.nodes, rm.children, rm.calls,
                      self, parent, next)

\* patch that inserts a new node whether or not there is an old leaf
patch_forgets_old(ls, ns, ch, self, old, parent, next) ==
    patch_new(ls, ns, ch, <<>>, self, parent, next)

\* patch that rebuilds the node whenever there is an old leaf
patch_always_rebuild(ls, ns, ch, self, old, parent, next) ==
    IF old # None
    THEN kind_change(ls, ns, ch, self, old, parent, next)
    ELSE patch_new(ls, ns, ch, <<>>, self, parent, next)

\* patch that reuses the old node whatever its kind
patch_ignores_kind(ls, ns, ch, self, old, parent, next) ==
    IF old # None
    THEN update_in_place(ls, ns, ch, self, old)
    ELSE patch_new(ls, ns, ch, <<>>, self, parent, next)

\* DOMPatch::patch
patch(ls, ns, ch, self, old, parent, next) ==
    IF old # None
    THEN IF ls[self].is_comment = ls[old].is_comment
         THEN update_in_place(ls, ns, ch, self, old)
         ELSE kind_change(ls, ns, ch, self, old, parent, next)
    ELSE patch_new(ls, ns, ch, <<>>, self, parent, next)

\* reorder that inserts a fresh node for the leaf each time
reorder_recreates(ls, ns, ch, self, parent, next) ==
    IF ls[self].node = None
    THEN Outcome("panic", ls, ns, ch, <<>>)
    ELSE patch_new(ls, ns, ch, <<>>, self, parent, next)

\* reorder that appends the node whatever next is
reorder_always_appends(ls, ns, ch, self, parent, next) ==
    IF ls[self].node = None
    THEN Outcome("panic", ls, ns, ch, <<>>)
    ELSE LET mv == append_child(ns, ch, parent, ls[self].node)
         IN Outcome(IF mv.ok THEN "Ok" ELSE "Err", ls, ns, mv.children,
                    <<Did("append_child", mv.ok)>>)

\* DOMReorder::reorder
reorder(ls, ns, ch, self, parent, next) ==
    IF ls[self].node = None
    THEN Outcome("panic", ls, ns, ch, <<>>)
    ELSE LET mv == IF next # None
                   THEN insert_before(ns, ch, parent, ls[self].node, next)
                   ELSE append_child(ns, ch, parent, ls[self].node)
             fn == IF next # None THEN "insert_before" ELSE "append_child"
         IN Outcome(IF mv.ok THEN "Ok" ELSE "Err", ls, ns, mv.children,
                    <<Did(fn, mv.ok)>>)

\* fmt that writes a comment's content bare
fmt_unwrapped(leaf) == leaf.content

\* Display::fmt: the string format!("{}", leaf) yields
fmt(leaf) ==
    IF leaf.is_comment
    THEN "<!--" \o leaf.content \o "-->"
    ELSE leaf.content

\* DOMInfo::node
node(ls, self) == ls[self].node

\* ---- the state machine -------------------------------------------------
LeafIds == 1..Len(leaves)
NodeIds == 1..Len(nodes)

\* a panic aborts the program: nothing runs after it
Running == ret # "panic"

\* one more protocol call, of at most maxCalls
Calling(maxCalls) ==
    Running /\ ncalls < maxCalls /\ ncalls' = ncalls + 1

Apply(o) ==
    /\ leaves' = o.leaves
    /\ nodes' = o.nodes
    /\ children' = o.children
    /\ ret' = o.ret
    /\ calls' = o.calls

\* The document before any leaf is rendered: a div (node 1) whose only child
\* is an empty element (node 2), the sibling that next_sibling can refer to.
Init ==
    /\ leaves = <<>>
    /\ nodes = [e \in Elements |-> [kind |-> "element", text |-> ""]]
    /\ children = [e \in Elements |-> IF e = 1 THEN <<2>> ELSE <<>>]
    /\ call = [op |-> "init", self |-> None, old |-> None, parent |-> None,
               next |-> None]
    /\ ret = "init"
    /\ calls = <<>>
    /\ patchedOk = {}
    /\ ncalls = 0

\* The leaves are constructed before the first protocol call is made on any
\* of them.
New(leaf, opname, maxLeaves) ==
    /\ ncalls = 0
    /\ Len(leaves) < maxLeaves
    /\ leaves' = Append(leaves, leaf)
    /\ call' = [op |-> opname, self |-> Len(leaves) + 1, old |-> None,
                parent |-> None, next |-> None]
    /\ ret' = "Ok"
    /\ calls' = <<>>
    /\ UNCHANGED <<nodes, children, patchedOk, ncalls>>

\* patch called on a leaf of selves, with parent drawn from parents and next
\* from nexts[parent]
PatchWith(maxCalls, selves, parents, nexts) ==
    /\ Calling(maxCalls)
    /\ \E self \in selves, old \in {None} \cup LeafIds,
          parent \in parents :
      \E next \in nexts[parent] :
        /\ old # self
        /\ Apply(patch(leaves, nodes, children, self, old, parent, next))
        /\ call' = [op |-> "patch", self |-> self, old |-> old,
                    parent |-> parent, next |-> next]
        /\ patchedOk' = IF ret' = "Ok" THEN patchedOk \cup {self} ELSE patchedOk

ReorderWith(maxCalls, parents, nexts) ==
    /\ Calling(maxCalls)
    /\ \E self \in LeafIds, parent \in parents :
      \E next \in nexts[parent] :
        /\ Apply(reorder(leaves, nodes, children, self, parent, next))
        /\ call' = [op |-> "reorder", self |-> self, old |-> None,
                    parent |-> parent, next |-> next]
        /\ UNCHANGED patchedOk

RemoveWith(maxCalls, parents) ==
    /\ Calling(maxCalls)
    /\ \E self \in LeafIds, parent \in parents :
        /\ Apply(remove(leaves, nodes, children, <<>>, self, parent))
        /\ call' = [op |-> "remove", self |-> self, old |-> None,
                    parent |-> parent, next |-> None]
        /\ UNCHANGED patchedOk

InfoWith(maxCalls) ==
    /\ Calling(maxCalls)
    /\ \E self \in LeafIds :
        /\ call' = [op |-> "node", self |-> self, old |-> None,
                    parent |-> None, next |-> node(leaves, self)]
        /\ ret' = "Ok"
        /\ calls' = <<>>
        /\ UNCHANGED <<leaves, nodes, children, patchedOk>>

\* Spec: either element or a text/comment node may be passed as parent.  A
\* text or comment node cannot have children whichever it is, so the first
\* one created stands for them all.
Parents == {n \in NodeIds : n \in Elements \/ n = Cardinality(Elements) + 1}

\* next_sibling is none, a child of parent, or a node that is not a child of
\* parent; the platform treats every node of the last sort alike, so parent
\* itself stands for them.
Nexts(parent) ==
    {None, parent} \cup {n \in NodeIds : ParentOf(children, n) = parent}

MakeText == \E c \in Contents : New(text(c), "text", MaxLeaves)

MakeComment == \E c \in Contents : New(comment(c), "comment", MaxLeaves)

Patch == PatchWith(MaxCalls, LeafIds, Parents, [p \in Parents |-> Nexts(p)])

Reorder == ReorderWith(MaxCalls, Parents, [p \in Parents |-> Nexts(p)])

Remove == RemoveWith(MaxCalls, Parents)

Info == InfoWith(MaxCalls)

Next == MakeText \/ MakeComment \/ Patch \/ Reorder \/ Remove \/ Info

Spec == Init /\ [][Next]_vars

\* SpecDiv: a sequence of patches with one more leaf and one more call; every
\* patch is called on a new leaf (one not attached yet) against any previous
\* leaf or none, on the div, with next_sibling none or the div's element
\* child.
DivLeaves == MaxLeaves + 1
DivCalls == MaxCalls + 1
DivNexts == [p \in {1} |-> {None, 2}]

DivText == \E c \in Contents : New(text(c), "text", DivLeaves)

DivComment == \E c \in Contents : New(comment(c), "comment", DivLeaves)

NewLeaves == {l \in LeafIds : leaves[l].node = None}

DivPatch == PatchWith(DivCalls, NewLeaves, {1}, DivNexts)

NextDiv == DivText \/ DivComment \/ DivPatch

SpecDiv == Init /\ [][NextDiv]_vars

\* SpecFmt: leaves are built, patched into the div and displayed; the contents
\* include markup characters and the comment terminator.
FmtContents == Contents \cup {"-->&<"}

FmtText == \E c \in FmtContents : New(text(c), "text", MaxLeaves)

FmtComment == \E c \in FmtContents : New(comment(c), "comment", MaxLeaves)

FmtPatch == PatchWith(MaxCalls, LeafIds, {1}, [p \in {1} |-> {None}])

Fmt ==
    /\ Calling(MaxCalls)
    /\ \E self \in LeafIds :
        /\ call' = [op |-> "fmt", self |-> self, old |-> None,
                    parent |-> None, next |-> None]
        /\ ret' = fmt(leaves[self])
        /\ calls' = <<>>
        /\ UNCHANGED <<leaves, nodes, children, patchedOk>>

NextFmt == FmtText \/ FmtComment \/ FmtPatch \/ Fmt

SpecFmt == Init /\ [][NextFmt]_vars

\* SpecChain: the leaves rendered one after another at the only position of
\* the empty element: the first patch has no previous leaf, every later one
\* is made against the leaf patched just before, and the chain goes on while
\* the patches succeed.  next_sibling is none, a child of the element, or a
\* node that is not one.
ChainParent == 2

ChainNexts ==
    {None, 1} \cup {n \in NodeIds : ParentOf(children, n) = ChainParent}

ChainPatch ==
    /\ Calling(DivCalls)
    /\ ncalls = 0 \/ ret = "Ok"
    /\ \E self \in LeafIds, next \in ChainNexts :
        LET old == IF ncalls = 0 THEN None ELSE call.self
        IN /\ old # self
           /\ Apply(patch(leaves, nodes, children, self, old, ChainParent,
                          next))
           /\ call' = [op |-> "patch", self |-> self, old |-> old,
                       parent |-> ChainParent, next |-> next]
           /\ patchedOk' = IF ret' = "Ok" THEN patchedOk \cup {self}
                           ELSE patchedOk

NextChain == DivText \/ DivComment \/ ChainPatch

SpecChain == Init /\ [][NextChain]_vars

TypeOK ==
    /\ \A l \in LeafIds : leaves[l].node \in {None} \cup NodeIds
    /\ ret \in {"init", "Ok", "Err", "panic"}

\* ---- vocabulary of the properties ----------------------------------------
KindOf(leaf) == IF leaf.is_comment THEN "comment" ELSE "text"

\* the step is a call of the given protocol operation
Called(op) == ncalls' = ncalls + 1 /\ call'.op = op

\* the arguments of the call being made, and the state it started in
Self == call'.self
Old == call'.old
Parent == call'.parent
NextSibling == call'.next

SameKindPatch ==
    /\ Called("patch")
    /\ Old # None
    /\ leaves[Self].is_comment = leaves[Old].is_comment

KindChangePatch ==
    /\ Called("patch")
    /\ Old # None
    /\ leaves[Self].is_comment # leaves[Old].is_comment

\* nothing of the live document changed
SameDocument == nodes' = nodes /\ children' = children

\* the live nodes that existed before the step are as they were
OldNodesKept ==
    /\ Len(nodes') >= Len(nodes)
    /\ \A n \in 1..Len(nodes) : nodes'[n] = nodes[n]

IsInsertion(c) == c.fn \in {"insert_before", "append_child"}

IsCreation(c) == c.fn \in {"create_text_node", "create_comment"}

Failed(cs) == {i \in 1..Len(cs) : ~cs[i].ok}

\* ---- C1 ------------------------------------------------------------------
\* C1 (as stated): a patch against an attached previous leaf of the same kind
\* succeeds, the new leaf holds the very node the previous leaf held, the
\* document's child sequences and node count are untouched whatever
\* next_sibling is, and the live node's text is afterwards the new leaf's
\* content.
C1_AsStated ==
    [][(SameKindPatch /\ leaves[Old].node # None) =>
        /\ ret' = "Ok"
        /\ leaves'[Self].node = leaves[Old].node
        /\ children' = children
        /\ Len(nodes') = Len(nodes)
        /\ nodes'[leaves[Old].node].text = leaves[Self].content]_vars

\* C1 (amended): as above, but the live node's text is the new leaf's content
\* when the contents of the two leaves differ or the node's text was the
\* previous leaf's content before the call; when the contents are equal the
\* node's text is left as it was.  Every other live node is unchanged.
C1_UpdateInPlace ==
    [][(SameKindPatch /\ leaves[Old].node # None) =>
        LET on == leaves[Old].node
        IN /\ ret' = "Ok"
           /\ leaves'[Self].node = on
           /\ children' = children
           /\ Len(nodes') = Len(nodes)
           /\ nodes'[on].kind = nodes[on].kind
           /\ \A n \in 1..Len(nodes) : n # on => nodes'[n] = nodes[n]
           /\ nodes'[on].text =
                 IF leaves[Self].content # leaves[Old].content
                 THEN leaves[Self].content
                 ELSE nodes[on].text
           /\ (leaves[Self].content # leaves[Old].content
               \/ nodes[on].text = leaves[Old].content)
                 => nodes'[on].text = leaves[Self].content]_vars

\* an update in place that rewrote the text, called with a next_sibling
C1_Witness ==
    /\ call.op = "patch" /\ ret = "Ok"
    /\ call.old # None /\ call.next # None
    /\ leaves[call.self].is_comment = leaves[call.old].is_comment
    /\ leaves[call.self].content # leaves[call.old].content
    /\ leaves[call.self].node = leaves[call.old].node
    /\ nodes[leaves[call.self].node].text = leaves[call.self].content
    /\ InSeq(children[1], leaves[call.self].node)

\* ---- C2 ------------------------------------------------------------------
\* C2: a successful patch against an attached previous leaf of the other kind
\* takes the previous leaf's node out of the parent, adds exactly one new
\* node of the new leaf's kind and content (before next_sibling if given,
\* else last), leaves every other child and every other element as it was,
\* and attaches the new leaf to the new node.
C2_KindChange ==
    [][(KindChangePatch /\ leaves[Old].node # None /\ ret' = "Ok") =>
        LET on == leaves[Old].node
            nn == leaves'[Self].node
            after == children'[Parent]
        IN /\ Parent \in Elements
           /\ ~InSeq(after, on)
           /\ nn # on
           /\ nn = Len(nodes) + 1
           /\ Len(nodes') = Len(nodes) + 1
           /\ OldNodesKept
           /\ nodes'[nn] = [kind |-> KindOf(leaves[Self]),
                            text |-> leaves[Self].content]
           /\ Cardinality({i \in 1..Len(after) : after[i] = nn}) = 1
           /\ Without(after, nn) = Without(children[Parent], on)
           /\ IF NextSibling # None
              THEN after[IndexOf(after, nn) + 1] = NextSibling
              ELSE after[Len(after)] = nn
           /\ \A e \in Elements : e # Parent => children'[e] = children[e]]_vars

\* a kind change done before a next_sibling
C2_Witness ==
    /\ call.op = "patch" /\ ret = "Ok"
    /\ call.old # None /\ call.next # None
    /\ leaves[call.self].is_comment # leaves[call.old].is_comment
    /\ leaves[call.old].node # None
    /\ leaves[call.self].node # leaves[call.old].node
    /\ InSeq(children[call.parent], call.next)
    /\ InSeq(children[call.parent], leaves[call.self].node)

\* ---- C3 ------------------------------------------------------------------
\* C3: a successful patch without previous leaf into an empty parent leaves
\* the parent with exactly one child, of the leaf's kind and content, and
\* that child is the leaf's attached node.
C3_InsertNew ==
    [][(/\ Called("patch") /\ Old = None /\ ret' = "Ok"
        /\ Parent \in Elements /\ children[Parent] = <<>>) =>
        /\ leaves'[Self].node # None
        /\ children'[Parent] = <<leaves'[Self].node>>
        /\ nodes'[leaves'[Self].node].kind = KindOf(leaves[Self])
        /\ nodes'[leaves'[Self].node].text = leaves[Self].content]_vars

\* an empty comment inserted as the only child
C3_Witness ==
    /\ call.op = "patch" /\ ret = "Ok" /\ call.old = None
    /\ leaves[call.self].is_comment /\ leaves[call.self].content = ""
    /\ children[call.parent] = <<leaves[call.self].node>>
    /\ call.parent = 2

\* ---- C4 ------------------------------------------------------------------
\* C4: remove or reorder on an unattached leaf, and patch against an
\* unattached previous leaf of either kind, panic: they return neither Ok nor
\* Err, make no platform call and change neither the document nor any leaf.
C4_FatalPath ==
    [][(\/ (Called("remove") \/ Called("reorder")) /\ leaves[Self].node = None
        \/ Called("patch") /\ Old # None /\ leaves[Old].node = None) =>
        /\ ret' = "panic"
        /\ calls' = <<>>
        /\ SameDocument
        /\ leaves' = leaves]_vars

\* a kind-change patch that panicked on its unattached previous leaf
C4_Witness ==
    /\ ret = "panic" /\ call.op = "patch" /\ call.old # None
    /\ leaves[call.self].is_comment # leaves[call.old].is_comment
    /\ leaves[call.old].node = None
    /\ leaves[call.self].node = None

\* ---- C5 ------------------------------------------------------------------
\* C5 (as stated): patch returns an Err only on the path without previous
\* leaf.
C5_AsStated == (call.op = "patch" /\ ret = "Err") => call.old = None

\* C5 (amended): patch returns an Err only from the platform call it made
\* last, which is either the insertion of the node it has just created (with
\* no previous leaf, or after the removal in a kind change) or the removal of
\* the previous leaf's node in a kind change; the path that reuses the
\* previous leaf's node never returns an Err.
C5_ErrSources ==
    (call.op = "patch" /\ ret = "Err") =>
        /\ calls # <<>>
        /\ Failed(calls) = {Len(calls)}
        /\ \/ /\ IsInsertion(calls[Len(calls)])
              /\ Len(calls) >= 2
              /\ IsCreation(calls[Len(calls) - 1])
              /\ call.old = None => Len(calls) = 2
           \/ /\ calls = <<Did("remove_child", FALSE)>>
              /\ call.old # None
        /\ call.old # None =>
              leaves[call.self].is_comment # leaves[call.old].is_comment

\* a kind change whose removal succeeded and whose insertion failed
C5_Witness ==
    /\ call.op = "patch" /\ ret = "Err" /\ call.old # None
    /\ Len(calls) = 3
    /\ calls[1] = Did("remove_child", TRUE)
    /\ ~calls[3].ok

\* ---- C6 ------------------------------------------------------------------
\* C6: when the insertion made by patch fails, patch returns Err, it has made
\* that one insertion call only (no retry) and nothing after it, and the
\* leaf's attached node is what it was before the call: unset if it was
\* unset.
C6_InsertFailure ==
    [][(/\ Called("patch")
        /\ \E i \in Failed(calls') : IsInsertion(calls'[i])) =>
        /\ ret' = "Err"
        /\ Cardinality({i \in 1..Len(calls') : IsInsertion(calls'[i])}) = 1
        /\ IsInsertion(calls'[Len(calls')])
        /\ leaves'[Self].node = leaves[Self].node
        /\ leaves[Self].node = None => leaves'[Self].node = None]_vars

\* a fresh leaf whose append_child failed
C6_Witness ==
    /\ call.op = "patch" /\ ret = "Err" /\ call.old = None
    /\ calls[Len(calls)] = Did("append_child", FALSE)
    /\ leaves[call.self].node = None
    /\ call.self \notin patchedOk

\* ---- C7 ------------------------------------------------------------------
\* C7: a leaf has an attached node if and only if a patch call on it has
\* returned Ok.
C7_AttachedIffPatched ==
    \A l \in LeafIds : (leaves[l].node # None) <=> (l \in patchedOk)

\* one leaf attached by a patch, another whose patch failed
C7_Witness ==
    /\ call.op = "patch" /\ ret = "Err"
    /\ leaves[call.self].node = None
    /\ \E l \in patchedOk : leaves[l].node # None

\* ---- C8 ------------------------------------------------------------------
\* C8: the live node attached to a leaf is a comment node if the leaf is a
\* comment and a text node if it is not.
C8_KindMatches ==
    \A l \in LeafIds :
        leaves[l].node # None => nodes[leaves[l].node].kind = KindOf(leaves[l])

\* leaves of both kinds attached, the last one by a kind change
C8_Witness ==
    /\ call.op = "patch" /\ ret = "Ok" /\ call.old # None
    /\ leaves[call.self].is_comment /\ ~leaves[call.old].is_comment
    /\ leaves[call.self].node # None /\ leaves[call.old].node # None

\* ---- C9 ------------------------------------------------------------------
\* C9 (as stated): once a leaf holds a live node, no call changes or clears
\* it.
C9_AsStated ==
    [][\A l \in LeafIds :
          leaves[l].node # None => leaves'[l].node = leaves[l].node]_vars

\* C9 (amended): once a leaf holds a live node it is never cleared, and it
\* changes only by a patch call on that same leaf that returns Ok; reorder,
\* remove, node and failed or panicking calls leave it as it is.
C9_SetOnlyByPatch ==
    [][\A l \in LeafIds :
          leaves[l].node # None =>
              /\ leaves'[l].node # None
              /\ leaves'[l].node # leaves[l].node =>
                    (Called("patch") /\ Self = l /\ ret' = "Ok")]_vars

\* a leaf still attached after its node has been removed from the parent
C9_Witness ==
    /\ call.op = "remove" /\ ret = "Ok"
    /\ leaves[call.self].node # None
    /\ ParentOf(children, leaves[call.self].node) = None

\* ---- C10 -----------------------------------------------------------------
\* C10 (as stated): no two leaves hold the same live node.
C10_AsStated ==
    \A l, m \in LeafIds :
        (l # m /\ leaves[l].node # None) => leaves[l].node # leaves[m].node

\* C10 (amended): a node created by patch is held by the patched leaf alone;
\* an update in place makes the new leaf hold the previous leaf's node while
\* the previous leaf keeps its reference, so that both then hold it; and two
\* leaves that hold the same node are of the same kind.
C10_Ownership ==
    [][/\ (Called("patch") /\ ret' = "Ok"
           /\ (Old = None \/ KindChangePatch)) =>
              \A l \in LeafIds : l # Self => leaves'[l].node # leaves'[Self].node
       /\ (SameKindPatch /\ ret' = "Ok") =>
              /\ leaves'[Old].node = leaves[Old].node
              /\ leaves'[Self].node = leaves'[Old].node
              /\ leaves'[Old].node # None
       /\ \A l, m \in 1..Len(leaves') :
              (leaves'[l].node # None /\ leaves'[l].node = leaves'[m].node)
                  => leaves'[l].is_comment = leaves'[m].is_comment]_vars

\* the new and the previous leaf both hold the node after an update in place
C10_Witness ==
    /\ call.op = "patch" /\ ret = "Ok" /\ call.old # None
    /\ leaves[call.self].is_comment = leaves[call.old].is_comment
    /\ leaves[call.old].node # None
    /\ leaves[call.self].node = leaves[call.old].node

\* ---- C11 -----------------------------------------------------------------
\* C11: when a successful patch creates a node in a parent that already has
\* children, the new node is immediately before next_sibling if one is given
\* and last if none is, and the children the parent had (less the previous
\* leaf's node in a kind change) keep their order.
C11_InsertPosition ==
    [][(/\ Called("patch") /\ ret' = "Ok"
        /\ (Old = None \/ KindChangePatch)
        /\ Parent \in Elements /\ children[Parent] # <<>>) =>
        LET nn == leaves'[Self].node
            before == IF Old = None
                      THEN children[Parent]
                      ELSE Without(children[Parent], leaves[Old].node)
            after == children'[Parent]
        IN /\ nn = Len(nodes) + 1
           /\ Cardinality({i \in 1..Len(after) : after[i] = nn}) = 1
           /\ Without(after, nn) = before
           /\ Len(after) = Len(before) + 1
           /\ IF NextSibling # None
              THEN /\ InSeq(children[Parent], NextSibling)
                   /\ IndexOf(after, nn) < Len(after)
                   /\ after[IndexOf(after, nn) + 1] = NextSibling
              ELSE after[Len(after)] = nn]_vars

\* a node inserted between two children the parent already had
C11_Witness ==
    /\ call.op = "patch" /\ ret = "Ok" /\ call.old = None
    /\ call.next # None
    /\ Len(children[call.parent]) = 3
    /\ children[call.parent][2] = leaves[call.self].node
    /\ children[call.parent][3] = call.next

\* ---- C12 -----------------------------------------------------------------
\* a successful reorder of an attached leaf whose node is a child of parent
Reordered ==
    /\ Called("reorder") /\ ret' = "Ok"
    /\ leaves[Self].node # None
    /\ ParentOf(children, leaves[Self].node) = Parent

\* what every such reorder keeps: the nodes, the other parents' children, the
\* parent's children as a set without duplicate, the order of the others, and
\* the leaves
ReorderFrame ==
    LET n == leaves[Self].node
        after == children'[Parent]
    IN /\ nodes' = nodes
       /\ \A p \in DOMAIN children : p # Parent => children'[p] = children[p]
       /\ DOMAIN children' = DOMAIN children
       /\ Len(after) = Len(children[Parent])
       /\ {after[i] : i \in 1..Len(after)} =
              {children[Parent][i] : i \in 1..Len(after)}
       /\ Cardinality({i \in 1..Len(after) : after[i] = n}) = 1
       /\ Without(after, n) = Without(children[Parent], n)
       /\ leaves' = leaves

\* C12 as stated: after a successful reorder the node is immediately before
\* next_sibling whenever one is given, and last otherwise.
C12_AsStated ==
    [][Reordered =>
        LET n == leaves[Self].node
            after == children'[Parent]
        IN /\ ReorderFrame
           /\ IF NextSibling # None
              THEN /\ IndexOf(after, n) < Len(after)
                   /\ after[IndexOf(after, n) + 1] = NextSibling
              ELSE after[Len(after)] = n]_vars

\* C12: a successful reorder of an attached leaf whose node is a child of
\* parent keeps the set of the parent's children (no node created, destroyed
\* or duplicated), the relative order of the other children and the leaf's
\* fields; the node ends immediately before next_sibling if that is another
\* node, where it was if next_sibling is the node itself, and last if no
\* next_sibling is given.
C12_ReorderFrame ==
    [][Reordered =>
        LET n == leaves[Self].node
            after == children'[Parent]
        IN /\ ReorderFrame
           /\ IF NextSibling = None
              THEN after[Len(after)] = n
              ELSE IF NextSibling = n
              THEN after = children[Parent]
              ELSE /\ IndexOf(after, n) < Len(after)
                   /\ after[IndexOf(after, n) + 1] = NextSibling]_vars

\* the last child moved to the front of another child
C12_Witness ==
    /\ call.op = "reorder" /\ ret = "Ok"
    /\ call.next # None /\ call.next # leaves[call.self].node
    /\ children[call.parent] = <<leaves[call.self].node, call.next>>
    /\ calls = <<Did("insert_before", TRUE)>>

\* ---- C13 -----------------------------------------------------------------
\* C13: a successful remove of an attached leaf whose node is a child of
\* parent deletes exactly that node from the parent's children, the others
\* unchanged and in order, and leaves the leaf's content, is_comment and node
\* as they were, so that node() still returns the removed node.
C13_RemoveFrame ==
    [][(/\ Called("remove") /\ ret' = "Ok"
        /\ leaves[Self].node # None
        /\ ParentOf(children, leaves[Self].node) = Parent) =>
        LET n == leaves[Self].node
        IN /\ children'[Parent] = Without(children[Parent], n)
           /\ Len(children'[Parent]) = Len(children[Parent]) - 1
           /\ ~InSeq(children'[Parent], n)
           /\ \A p \in DOMAIN children :
                  p # Parent => children'[p] = children[p]
           /\ nodes' = nodes
           /\ leaves' = leaves
           /\ node(leaves', Self) = n]_vars

\* a leaf removed from a parent that keeps another child, still naming its
\* node
C13_Witness ==
    /\ call.op = "remove" /\ ret = "Ok"
    /\ calls = <<Did("remove_child", TRUE)>>
    /\ node(leaves, call.self) # None
    /\ children[call.parent] = <<2>>
    /\ ~InSeq(children[call.parent], node(leaves, call.self))

\* ---- C14 -----------------------------------------------------------------
\* C14: a patch against an attached previous leaf of the same kind and the
\* same content makes no platform call (so no set_text_content), leaves every
\* parent's children and every node's text as they were, and attaches the
\* new leaf to the previous leaf's node.
C14_NoOpUpdate ==
    [][(/\ SameKindPatch
        /\ leaves[Old].node # None
        /\ leaves[Self].content = leaves[Old].content) =>
        /\ ret' = "Ok"
        /\ \A i \in 1..Len(calls') : calls'[i].fn # "set_text_content"
        /\ calls' = <<>>
        /\ SameDocument
        /\ leaves'[Self].node = leaves[Old].node
        /\ \A l \in LeafIds \ {Self} : leaves'[l] = leaves[l]]_vars

\* a patch with equal content that made no platform call and shares the node
C14_Witness ==
    /\ call.op = "patch" /\ ret = "Ok"
    /\ call.old # None
    /\ leaves[call.self].is_comment = leaves[call.old].is_comment
    /\ leaves[call.self].content = leaves[call.old].content
    /\ calls = <<>>
    /\ leaves[call.self].node = leaves[call.old].node
    /\ ParentOf(children, leaves[call.self].node) = 1

\* ---- C15 -----------------------------------------------------------------
\* C15: displaying a leaf yields "<!--" + content + "-->" for a comment and
\* the content itself, unescaped and unwrapped, for a text, the empty content
\* included; the string is the same whatever node the leaf is attached to,
\* and displaying changes neither the leaf nor the document.
C15_Display ==
    [][Called("fmt") =>
        LET l == leaves[Self]
        IN /\ l.is_comment =>
                /\ ret' = "<!--" \o l.content \o "-->"
                /\ Len(ret') = Len(l.content) + 7
                /\ l.content = "" => ret' = "<!---->"
                /\ l.content = "-->&<" => ret' = "<!---->&<-->"
           /\ ~l.is_comment =>
                /\ ret' = l.content
                /\ Len(ret') = Len(l.content)
           /\ \A m \in LeafIds :
                (/\ leaves[m].content = l.content
                 /\ leaves[m].is_comment = l.is_comment) =>
                    fmt(leaves[m]) = ret'
           /\ leaves' = leaves
           /\ SameDocument]_vars

\* an attached comment of empty content displayed as the bare delimiters
C15_Witness ==
    /\ call.op = "fmt"
    /\ leaves[call.self].is_comment
    /\ leaves[call.self].content = ""
    /\ leaves[call.self].node # None
    /\ ret = "<!---->"

\* ---- C16 -----------------------------------------------------------------
\* C16: no step changes the content or the is_comment of a leaf: whatever
\* patch, reorder, remove or node call is made, on whichever leaf and with
\* whichever previous leaf, every leaf keeps the two fields it was built with.
C16_FieldsFixed ==
    [][\A l \in LeafIds :
          /\ l <= Len(leaves')
          /\ leaves'[l].content = leaves[l].content
          /\ leaves'[l].is_comment = leaves[l].is_comment]_vars

\* a comment updated in place from a previous comment of another content,
\* each leaf still holding its own content
C16_Witness ==
    /\ call.op = "patch" /\ ret = "Ok" /\ call.old # None
    /\ leaves[call.self].is_comment /\ leaves[call.old].is_comment
    /\ leaves[call.self].content # leaves[call.old].content
    /\ calls = <<Did("set_text_content", TRUE)>>
    /\ nodes[leaves[call.old].node].text = leaves[call.self].content

\* ---- C17 -----------------------------------------------------------------
\* C17: along a chain of successful patches at the one position of a parent
\* that was empty, after every patch the parent has exactly one child, the
\* child is the node of the leaf patched last, and the node's kind and text
\* are that leaf's kind and content.
C17_ChainInvariant ==
    (call.op = "patch" /\ ret = "Ok") =>
        LET latest == leaves[call.self]
        IN /\ Len(children[ChainParent]) = 1
           /\ latest.node # None
           /\ children[ChainParent] = <<latest.node>>
           /\ nodes[latest.node].kind = KindOf(latest)
           /\ nodes[latest.node].text = latest.content

\* a chain of three patches: an insertion, an update in place and a change
\* of kind
C17_Witness ==
    /\ call.op = "patch" /\ ret = "Ok" /\ ncalls = 3
    /\ call.old # None
    /\ leaves[call.old].node # None
    /\ leaves[call.old].node # leaves[call.self].node
    /\ \E l \in LeafIds \ {call.self, call.old} :
          /\ leaves[l].node = leaves[call.old].node
          /\ leaves[l].content # leaves[call.old].content
    /\ children[ChainParent] = <<leaves[call.self].node>>

\* ---- C18 -----------------------------------------------------------------
\* C18: in a patch that changes kind, the removal of the previous leaf's node
\* is the first platform call, before the creation and the insertion of the
\* new node; if the removal fails, patch returns Err at once: no node is
\* created or inserted, the document is as it was, and the new leaf's node is
\* as unset as before.
C18_RemoveFirst ==
    [][(KindChangePatch /\ leaves[Old].node # None) =>
        /\ calls' # <<>>
        /\ calls'[1].fn = "remove_child"
        /\ \A i \in 1..Len(calls') :
              (IsCreation(calls'[i]) \/ IsInsertion(calls'[i])) => i > 1
        /\ calls'[1].ok =>
              /\ Len(calls') = 3
              /\ IsCreation(calls'[2])
              /\ IsInsertion(calls'[3])
        /\ ~calls'[1].ok =>
              /\ ret' = "Err"
              /\ Len(calls') = 1
              /\ SameDocument
              /\ leaves' = leaves
              /\ leaves[Self].node = None => leaves'[Self].node = None]_vars

\* a change of kind stopped by the failed removal, the new leaf unattached
C18_Witness ==
    /\ call.op = "patch" /\ ret = "Err" /\ call.old # None
    /\ leaves[call.self].is_comment # leaves[call.old].is_comment
    /\ calls = <<Did("remove_child", FALSE)>>
    /\ leaves[call.old].node # None
    /\ leaves[call.self].node = None

\* ---- C19 -----------------------------------------------------------------
\* C19: in a patch that changes kind, when the previous leaf's node is
\* removed from the parent and the insertion of the new node then fails,
\* patch returns Err, the previous node stays out of the parent (it is not
\* put back), no leaf changes, so the new leaf is no more attached than it
\* was and the previous leaf still holds the removed node.
C19_NoRollback ==
    [][(/\ KindChangePatch
        /\ leaves[Old].node # None
        /\ \/ /\ ParentOf(children, leaves[Old].node) = Parent
              /\ NextSibling # None
              /\ ParentOf(Detach(children, leaves[Old].node), NextSibling)
                     # Parent
           \/ /\ Len(calls') = 3
              /\ calls'[1].ok
              /\ ~calls'[3].ok) =>
        LET on == leaves[Old].node
        IN /\ ret' = "Err"
           /\ Len(calls') = 3
           /\ calls'[1] = Did("remove_child", TRUE)
           /\ IsCreation(calls'[2])
           /\ IsInsertion(calls'[3]) /\ ~calls'[3].ok
           /\ children' = Detach(children, on)
           /\ ParentOf(children', on) = None
           /\ children'[Parent] = Without(children[Parent], on)
           /\ nodes' = nodes
           /\ leaves' = leaves
           /\ leaves[Self].node = None => leaves'[Self].node = None
           /\ leaves'[Old].node = on]_vars

\* the previous node gone from the document, the new leaf unattached and the
\* previous leaf still naming the node
C19_Witness ==
    /\ call.op = "patch" /\ ret = "Err" /\ call.old # None
    /\ Len(calls) = 3
    /\ calls[1] = Did("remove_child", TRUE)
    /\ ~calls[3].ok
    /\ leaves[call.self].node = None
    /\ leaves[call.old].node # None
    /\ ParentOf(children, leaves[call.old].node) = None

\* ---- C20 -----------------------------------------------------------------
\* C20: for an attached leaf whose node is a child of parent, and a
\* next_sibling that is none or another child of parent, reorder succeeds and
\* a second reorder with the same arguments succeeds too and leaves the
\* parent's children, and the rest of the document, as the first left them.
C20_ReorderIdempotent ==
    [][(/\ Called("reorder")
        /\ leaves[Self].node # None
        /\ ParentOf(children, leaves[Self].node) = Parent
        /\ \/ NextSibling = None
           \/ /\ NextSibling # leaves[Self].node
              /\ ParentOf(children, NextSibling) = Parent) =>
        LET again == reorder(leaves', nodes', children', Self, Parent,
                             NextSibling)
        IN /\ ret' = "Ok"
           /\ again.ret = "Ok"
           /\ again.children[Parent] = children'[Parent]
           /\ again.children = children'
           /\ again.nodes = nodes'
           /\ again.leaves = leaves']_vars

\* a node moved from the front of its parent to the end
C20_Witness ==
    /\ call.op = "reorder" /\ ret = "Ok"
    /\ call.next = None
    /\ calls = <<Did("append_child", TRUE)>>
    /\ Len(children[call.parent]) = 2
    /\ children[call.parent][2] = leaves[call.self].node
    /\ children[call.parent][1] = 2
    /\ nodes[leaves[call.self].node].kind = "comment"
====
